---- MODULE Spec2Model ----
(***************************************************************************)
(* Model of the rpi-rgb-led-matrix Rust binding: the configuration record  *)
(* (led_matrix_options::Options) with its manually owned C string buffers,  *)
(* the LedMatrix resource that retains the record, and the canvas handles   *)
(* exchanged by LedMatrix::swap.                                            *)
(*                                                                         *)
(* The heap is a sequence of blocks; a pointer is an index into it, and 0   *)
(* is the null pointer.  A block is never reused, so a pointer to a freed   *)
(* block stays recognisable as dangling and a second free is counted.       *)
(***************************************************************************)
EXTENDS Integers, Sequences, FiniteSets, TLC

\* Bound on the number of heap blocks ever allocated (Options::new takes 4).
MaxBufs == 6
\* Bound on the number of native frame buffers (the active one included).
MaxCanvases == 2
\* Bound on the number of LedCanvas values the caller holds at once.
MaxHandles == 2

VARIABLES
    heap,       \* Seq of [st, bytes, frees]: the C heap blocks made by CString
    opt,        \* the Options record (string fields are pointers into heap)
    optState,   \* "none" | "live" | "panicked" | "retained" | "dropped"
    mState,     \* the LedMatrix value: "none" | "live" | "failed" | "dropped"
    mHandle,    \* LedMatrix.handle (0 is null)
    native,     \* the native driver's state behind the FFI boundary
    held,       \* Seq of the LedCanvas values the caller holds: handle, origin
    font,       \* the LedFont value: [state, handle]
    call        \* the last call made: name, argument, result, native/heap events

vars == <<heap, opt, optState, mState, mHandle, native, held, font, call>>

----------------------------------------------------------------------------
(* Strings.  A &str is a sequence of characters; NUL stands for the byte 0. *)

NUL == "NUL"

Str_regular == <<"r", "e", "g", "u", "l", "a", "r">>
Str_RGB     == <<"R", "G", "B">>
Str_empty   == <<>>

\* The &str arguments the setters are called with; the last one has an
\* interior NUL byte.
StrInputs == { Str_empty, <<"B", "G", "R">>, <<"a", NUL, "b">> }

StringFields ==
    {"hardware_mapping", "led_rgb_sequence", "pixel_mapper_config", "panel_type"}

\* CString::new(s): Err(NulError) when s contains a 0 byte, otherwise the
\* bytes of s followed by the terminating 0.
CString_new(s) ==
    IF \E i \in 1..Len(s) : s[i] = NUL
    THEN [ok |-> FALSE, bytes |-> <<>>]
    ELSE [ok |-> TRUE, bytes |-> Append(s, NUL)]

\* CString::into_raw: the block is handed to C; the pointer is its address.
into_raw(h, bytes) == Append(h, [st |-> "alloc", bytes |-> bytes, frees |-> 0])

\* let _ = CString::from_raw(p): the CString is rebuilt from the pointer and
\* dropped at once, which frees the block p points to.
from_raw_drop(h, p) ==
    [h EXCEPT ![p] = [@ EXCEPT !.st = "freed", !.frees = @ + 1]]

Ev(e, b) == [ev |-> e, buf |-> b]

----------------------------------------------------------------------------
(* The configuration record, led_matrix_options::Options.                   *)

\* The record before Options::new() has run: no record exists yet.
NoOptions ==
    [hardware_mapping |-> 0, rows |-> 0, cols |-> 0, chain_length |-> 0,
     parallel |-> 0, pwm_bits |-> 0, pwm_lsb_nanoseconds |-> 0,
     pwm_dither_bits |-> 0, brightness |-> 0, scan_mode |-> 0,
     row_address_type |-> 0, multiplexing |-> 0, led_rgb_sequence |-> 0,
     pixel_mapper_config |-> 0, panel_type |-> 0,
     disable_hardware_pulsing |-> 0, show_refresh_rate |-> 0,
     inverse_colors |-> 0]

Options_new_flagsCleared(h) ==
    LET h1 == into_raw(h,  CString_new(Str_regular).bytes)
        h2 == into_raw(h1, CString_new(Str_RGB).bytes)
        h3 == into_raw(h2, CString_new(Str_empty).bytes)
        h4 == into_raw(h3, CString_new(Str_empty).bytes)
    IN  [heap |-> h4,
         rec  |-> [hardware_mapping |-> Len(h1), rows |-> 32, cols |-> 32,
                   chain_length |-> 1, parallel |-> 1, pwm_bits |-> 11,
                   pwm_lsb_nanoseconds |-> 1000, pwm_dither_bits |-> 1,
                   brightness |-> 100, scan_mode |-> 0,
                   row_address_type |-> 0, multiplexing |-> 0,
                   led_rgb_sequence |-> Len(h2),
                   pixel_mapper_config |-> Len(h3), panel_type |-> Len(h4),
                   disable_hardware_pulsing |-> 0, show_refresh_rate |-> 0,
                   inverse_colors |-> 0]]

\* Options::new(): four CStrings are allocated, in field order, and the
\* numeric fields take their defaults.  Returns the new heap and the record.
Options_new(h) ==
    LET h1 == into_raw(h,  CString_new(Str_regular).bytes)
        h2 == into_raw(h1, CString_new(Str_RGB).bytes)
        h3 == into_raw(h2, CString_new(Str_empty).bytes)
        h4 == into_raw(h3, CString_new(Str_empty).bytes)
    IN  [heap |-> h4,
         rec  |-> [hardware_mapping |-> Len(h1), rows |-> 32, cols |-> 32,
                   chain_length |-> 1, parallel |-> 1, pwm_bits |-> 11,
                   pwm_lsb_nanoseconds |-> 1000, pwm_dither_bits |-> 1,
                   brightness |-> 100, scan_mode |-> 0,
                   row_address_type |-> 0, multiplexing |-> 0,
                   led_rgb_sequence |-> Len(h2),
                   pixel_mapper_config |-> Len(h3), panel_type |-> Len(h4),
                   disable_hardware_pulsing |-> 1, show_refresh_rate |-> 1,
                   inverse_colors |-> 1]]

\* The u16 / u8 arguments the validated setters are called with.
ParallelInputs   == {0, 1, 3, 4, 65535}
PwmBitsInputs    == {0, 11, 12, 255}
BrightnessInputs == {0, 1, 100, 101, 255}

Options_set_parallel_noLower(o, parallel) ==
    IF parallel > 3
    THEN [res |-> "Err", rec |-> o]
    ELSE [res |-> "Ok", rec |-> [o EXCEPT !.parallel = parallel]]

\* Options::set_parallel(parallel: u16)
Options_set_parallel(o, parallel) ==
    IF parallel < 1 \/ parallel > 3
    THEN [res |-> "Err", rec |-> o]
    ELSE [res |-> "Ok", rec |-> [o EXCEPT !.parallel = parallel]]

Options_set_pwm_bits_offByOne(o, pwm_bits) ==
    IF pwm_bits > 12
    THEN [res |-> "Err", rec |-> o]
    ELSE [res |-> "Ok", rec |-> [o EXCEPT !.pwm_bits = pwm_bits]]

\* Options::set_pwm_bits(pwm_bits: u8)
Options_set_pwm_bits(o, pwm_bits) ==
    IF pwm_bits > 11
    THEN [res |-> "Err", rec |-> o]
    ELSE [res |-> "Ok", rec |-> [o EXCEPT !.pwm_bits = pwm_bits]]

Options_set_brightness_noLower(o, brightness) ==
    IF brightness > 100
    THEN [res |-> "Err", rec |-> o]
    ELSE [res |-> "Ok", rec |-> [o EXCEPT !.brightness = brightness]]

\* Options::set_brightness(brightness: u8)
Options_set_brightness(o, brightness) ==
    IF brightness > 100 \/ brightness < 1
    THEN [res |-> "Err", rec |-> o]
    ELSE [res |-> "Ok", rec |-> [o EXCEPT !.brightness = brightness]]

\* The body shared by set_hardware_mapping, set_led_rgb_sequence,
\* set_pixel_mapper_config and set_panel_type:
\*     let _ = CString::from_raw(self.f);
\*     self.f = CString::new(s).unwrap().into_raw();
\* The old block is freed first.  When s has an interior NUL, unwrap()
\* panics after the free and before the assignment.
set_string(h, o, f, s) ==
    LET h1 == from_raw_drop(h, o[f])
        c  == CString_new(s)
        h2 == into_raw(h1, c.bytes)
    IN  IF c.ok
        THEN [res |-> "Ok", heap |-> h2, rec |-> [o EXCEPT ![f] = Len(h2)],
              events |-> <<Ev("free", o[f]), Ev("alloc", Len(h2))>>]
        ELSE [res |-> "panic", heap |-> h1, rec |-> o,
              events |-> <<Ev("free", o[f])>>]

\* Options::set_hardware_mapping(mapping: &str)
Options_set_hardware_mapping(h, o, mapping) ==
    set_string(h, o, "hardware_mapping", mapping)

\* Options::set_led_rgb_sequence(sequence: &str)
Options_set_led_rgb_sequence(h, o, sequence) ==
    set_string(h, o, "led_rgb_sequence", sequence)

\* Options::set_pixel_mapper_config(pixel_mapper_config: &str)
Options_set_pixel_mapper_config(h, o, pixel_mapper_config) ==
    set_string(h, o, "pixel_mapper_config", pixel_mapper_config)

\* Options::set_panel_type(panel_type: &str)
Options_set_panel_type(h, o, panel_type) ==
    set_string(h, o, "panel_type", panel_type)

\* <Options as Drop>::drop: only hardware_mapping and led_rgb_sequence are
\* rebuilt and freed.
Options_drop(h, o) ==
    from_raw_drop(from_raw_drop(h, o.hardware_mapping), o.led_rgb_sequence)

Options_drop_events(o) ==
    <<Ev("free", o.hardware_mapping), Ev("free", o.led_rgb_sequence)>>

----------------------------------------------------------------------------
(* The native driver behind the extern "C" declarations.  Its state is the  *)
(* matrix object, the string pointers it was given at creation, and its     *)
(* frame buffers: pixels[c] is the colour frame buffer c is filled with     *)
(* and active is the frame buffer driving the display.                      *)

Black == <<0, 0, 0>>
\* The LedColor values the caller fills canvases with.
Colors == { <<127, 127, 0>>, <<127, 127, 127>> }

NoStrings == [f \in StringFields |-> [ptr |-> 0, bytes |-> <<>>]]

NativeInit ==
    [matrix |-> "none", deletes |-> 0, strings |-> NoStrings, active |-> 0,
     pixels |-> <<>>, uaf |-> FALSE, size |-> <<0, 0>>, font |-> "none",
     fontDeletes |-> 0]

\* The handle led_matrix_create_from_options returns: null or an object.
NativeHandles == {0, 1}

\* led_matrix_create_from_options(options, null, null) returning nh: on
\* success the driver keeps the record's string pointers, shows frame
\* buffer 1, and sizes its frame buffers cols * chain_length wide and
\* rows * parallel high.
led_matrix_create_from_options(n, h, o, nh) ==
    IF nh = 0
    THEN n
    ELSE [n EXCEPT !.matrix = "live",
                   !.strings = [f \in StringFields |->
                                   [ptr |-> o[f], bytes |-> h[o[f]].bytes]],
                   !.active = 1,
                   !.pixels = <<Black>>,
                   !.size = <<o.cols * o.chain_length, o.rows * o.parallel>>]

\* led_matrix_delete(matrix)
led_matrix_delete(n, matrix) ==
    [n EXCEPT !.matrix = "deleted", !.deletes = @ + 1]

\* led_matrix_get_canvas(matrix)
led_matrix_get_canvas(n, matrix) == n.active

\* led_matrix_create_offscreen_canvas(matrix): a new, black frame buffer.
led_matrix_create_offscreen_canvas(n, matrix) ==
    [n |-> [n EXCEPT !.pixels = Append(@, Black)], ret |-> Len(n.pixels) + 1]

\* led_matrix_swap_on_vsync(matrix, canvas): canvas becomes the active frame
\* buffer and the previously active one is returned.
led_matrix_swap_on_vsync(n, matrix, canvas) ==
    [n |-> [n EXCEPT !.active = canvas], ret |-> n.active]

\* led_canvas_fill(canvas, r, g, b)
led_canvas_fill(n, canvas, color) ==
    [n EXCEPT !.pixels = [@ EXCEPT ![canvas] = color]]

----------------------------------------------------------------------------
(* The LedMatrix resource.                                                  *)

LedMatrix_new_noNullCheck(h, o, nh) ==
    [res |-> "Ok", heap |-> h, optState |-> "retained", mState |-> "live",
     mHandle |-> nh, events |-> <<Ev("create", nh)>>]

LedMatrix_new_optionsNotRetained(h, o, nh) ==
    [res |-> IF nh = 0 THEN "Err" ELSE "Ok",
     heap |-> Options_drop(h, o), optState |-> "dropped",
     mState |-> IF nh = 0 THEN "failed" ELSE "live", mHandle |-> nh,
     events |-> <<Ev("create", nh)>> \o Options_drop_events(o)]

\* LedMatrix::new, from the native call on: o is the record the Option
\* argument resolved to and nh the handle the native call returned.  On a
\* null handle the record goes out of scope and is dropped; otherwise it is
\* moved into the LedMatrix.
LedMatrix_new(h, o, nh) ==
    IF nh = 0
    THEN [res |-> "Err", heap |-> Options_drop(h, o), optState |-> "dropped",
          mState |-> "failed", mHandle |-> 0,
          events |-> <<Ev("create", nh)>> \o Options_drop_events(o)]
    ELSE [res |-> "Ok", heap |-> h, optState |-> "retained",
          mState |-> "live", mHandle |-> nh,
          events |-> <<Ev("create", nh)>>]

LedMatrix_drop_noDelete(h, o, n, handle) ==
    [heap |-> Options_drop(h, o), native |-> n,
     events |-> Options_drop_events(o)]

\* Dropping a LedMatrix: <LedMatrix as Drop>::drop calls led_matrix_delete,
\* then the _options field is dropped.
LedMatrix_drop(h, o, n, handle) ==
    [heap |-> Options_drop(h, o), native |-> led_matrix_delete(n, handle),
     events |-> <<Ev("delete", handle)>> \o Options_drop_events(o)]

\* LedMatrix::canvas
LedMatrix_canvas(n, handle) == led_matrix_get_canvas(n, handle)

\* LedMatrix::offscreen_canvas
LedMatrix_offscreen_canvas(n, handle) ==
    led_matrix_create_offscreen_canvas(n, handle)

LedMatrix_swap_returnsArgument(n, handle, canvas) ==
    [n |-> led_matrix_swap_on_vsync(n, handle, canvas).n, ret |-> canvas]

\* LedMatrix::swap(canvas): the handle the native call returns is wrapped.
LedMatrix_swap(n, handle, canvas) ==
    led_matrix_swap_on_vsync(n, handle, canvas)

LedCanvas_fill_clears(n, canvas, color) == led_canvas_fill(n, canvas, Black)

\* LedCanvas::fill(color)
LedCanvas_fill(n, canvas, color) == led_canvas_fill(n, canvas, color)

----------------------------------------------------------------------------
(* The state machine: one action per call the caller can make.              *)

\* The record of a call: its name, argument and result, the Options record
\* and the active frame buffer as they were when it was made, and the heap
\* and native events it caused, in order.
Call(op, arg, res, events) ==
    [op |-> op, arg |-> arg, res |-> res, ret |-> <<>>, pre |-> opt,
     active0 |-> native.active, events |-> events]

\* The record of a call that returned the values ret: a handle, or a width
\* and a height.
Returned(op, arg, ret, events) ==
    [Call(op, arg, "Ok", events) EXCEPT !.ret = ret]

\* No LedFont has been constructed.
NoFont == [state |-> "none", handle |-> 0]

\* A LedCanvas the caller holds: its handle field, and the call it was
\* returned by.
LedCanvas(handle, from) == [handle |-> handle, from |-> from]

RemoveAt(s, i) == SubSeq(s, 1, i - 1) \o SubSeq(s, i + 1, Len(s))

Init ==
    /\ heap = <<>>
    /\ opt = NoOptions
    /\ optState = "none"
    /\ mState = "none"
    /\ mHandle = 0
    /\ native = NativeInit
    /\ held = <<>>
    /\ font = NoFont
    /\ call = [op |-> "start", arg |-> <<>>, res |-> "Ok", ret |-> <<>>,
               pre |-> NoOptions,
               active0 |-> 0, events |-> <<>>]

\* let mut options = Options::new();
Call_Options_new ==
    /\ optState = "none"
    /\ Len(heap) + 4 <= MaxBufs
    /\ LET r == Options_new(heap)
       IN  /\ heap' = r.heap
           /\ opt' = r.rec
           /\ call' = Call("Options::new", <<>>, "Ok",
                           [i \in 1..4 |-> Ev("alloc", Len(heap) + i)])
    /\ optState' = "live"
    /\ UNCHANGED <<mState, mHandle, native, held, font>>

Call_set_parallel ==
    /\ optState = "live"
    /\ \E parallel \in ParallelInputs :
          LET r == Options_set_parallel(opt, parallel)
          IN  /\ opt' = r.rec
              /\ call' = Call("set_parallel", parallel, r.res, <<>>)
    /\ UNCHANGED <<heap, optState, mState, mHandle, native, held, font>>

Call_set_pwm_bits ==
    /\ optState = "live"
    /\ \E pwm_bits \in PwmBitsInputs :
          LET r == Options_set_pwm_bits(opt, pwm_bits)
          IN  /\ opt' = r.rec
              /\ call' = Call("set_pwm_bits", pwm_bits, r.res, <<>>)
    /\ UNCHANGED <<heap, optState, mState, mHandle, native, held, font>>

Call_set_brightness ==
    /\ optState = "live"
    /\ \E brightness \in BrightnessInputs :
          LET r == Options_set_brightness(opt, brightness)
          IN  /\ opt' = r.rec
              /\ call' = Call("set_brightness", brightness, r.res, <<>>)
    /\ UNCHANGED <<heap, optState, mState, mHandle, native, held, font>>

\* The effect of a string setter's result r on the state; a panic leaves the
\* record to the unwinding.
StringSetterStep(op, s, r) ==
    /\ heap' = r.heap
    /\ opt' = r.rec
    /\ optState' = IF r.res = "panic" THEN "panicked" ELSE optState
    /\ call' = Call(op, s, r.res, r.events)
    /\ UNCHANGED <<mState, mHandle, native, held, font>>

Call_set_hardware_mapping ==
    /\ optState = "live"
    /\ \E s \in StrInputs :
          /\ CString_new(s).ok => Len(heap) < MaxBufs
          /\ StringSetterStep("set_hardware_mapping", s,
                              Options_set_hardware_mapping(heap, opt, s))

Call_set_led_rgb_sequence ==
    /\ optState = "live"
    /\ \E s \in StrInputs :
          /\ CString_new(s).ok => Len(heap) < MaxBufs
          /\ StringSetterStep("set_led_rgb_sequence", s,
                              Options_set_led_rgb_sequence(heap, opt, s))

Call_set_pixel_mapper_config ==
    /\ optState = "live"
    /\ \E s \in StrInputs :
          /\ CString_new(s).ok => Len(heap) < MaxBufs
          /\ StringSetterStep("set_pixel_mapper_config", s,
                              Options_set_pixel_mapper_config(heap, opt, s))

Call_set_panel_type ==
    /\ optState = "live"
    /\ \E s \in StrInputs :
          /\ CString_new(s).ok => Len(heap) < MaxBufs
          /\ StringSetterStep("set_panel_type", s,
                              Options_set_panel_type(heap, opt, s))

\* The record goes out of scope in the caller: at the end of its block, or
\* while the panic of a string setter unwinds the caller's frame.
Drop_Options ==
    /\ optState \in {"live", "panicked"}
    /\ heap' = Options_drop(heap, opt)
    /\ optState' = "dropped"
    /\ call' = Call("drop(Options)", <<>>, "Ok", Options_drop_events(opt))
    /\ UNCHANGED <<opt, mState, mHandle, native, held, font>>

\* The part of LedMatrix::new after the Option argument is resolved to the
\* record o on heap h.
LedMatrixNewStep(op, h, o) ==
    \E nh \in NativeHandles :
        LET r == LedMatrix_new(h, o, nh)
        IN  /\ heap' = r.heap
            /\ opt' = o
            /\ optState' = r.optState
            /\ mState' = r.mState
            /\ mHandle' = r.mHandle
            /\ native' = led_matrix_create_from_options(native, h, o, nh)
            /\ held' = held
            /\ font' = font
            /\ call' = Call(op, <<>>, r.res, r.events)

\* LedMatrix::new(Some(options))
Call_LedMatrix_new_Some ==
    /\ optState = "live"
    /\ mState = "none"
    /\ LedMatrixNewStep("LedMatrix::new(Some)", heap, opt)

\* LedMatrix::new(None)
Call_LedMatrix_new_None ==
    /\ optState = "none"
    /\ mState = "none"
    /\ Len(heap) + 4 <= MaxBufs
    /\ LET r == Options_new(heap)
       IN  LedMatrixNewStep("LedMatrix::new(None)", r.heap, r.rec)

\* The LedMatrix goes out of scope.
Drop_LedMatrix ==
    /\ mState = "live"
    /\ LET r == LedMatrix_drop(heap, opt, native, mHandle)
       IN  /\ heap' = r.heap
           /\ native' = r.native
           /\ call' = Call("drop(LedMatrix)", <<>>, "Ok", r.events)
    /\ mState' = "dropped"
    /\ optState' = "dropped"
    /\ UNCHANGED <<opt, mHandle, held, font>>

\* let canvas = matrix.canvas();
Call_canvas ==
    /\ mState = "live"
    /\ Len(held) < MaxHandles
    /\ LET c == LedMatrix_canvas(native, mHandle)
       IN  /\ held' = Append(held, LedCanvas(c, "canvas"))
           /\ call' = Returned("canvas", <<>>, <<c>>, <<>>)
    /\ UNCHANGED <<heap, opt, optState, mState, mHandle, native, font>>

\* let canvas = matrix.offscreen_canvas();
Call_offscreen_canvas ==
    /\ mState = "live"
    /\ Len(held) < MaxHandles
    /\ Len(native.pixels) < MaxCanvases
    /\ LET r == LedMatrix_offscreen_canvas(native, mHandle)
       IN  /\ native' = r.n
           /\ held' = Append(held, LedCanvas(r.ret, "offscreen_canvas"))
           /\ call' = Returned("offscreen_canvas", <<>>, <<r.ret>>, <<>>)
    /\ UNCHANGED <<heap, opt, optState, mState, mHandle, font>>

swap_moves_byReference(hs, i, ret) == Append(hs, ret)

\* swap(&self, canvas: LedCanvas) -> LedCanvas: the argument, the i-th
\* LedCanvas the caller holds, is moved into the call; the caller is left
\* with its other values and the one returned.
swap_moves(hs, i, ret) == Append(RemoveAt(hs, i), ret)

\* let canvas = matrix.swap(canvas);  the argument is moved into the call.
Call_swap ==
    /\ mState = "live"
    /\ \E i \in DOMAIN held :
          LET r == LedMatrix_swap(native, mHandle, held[i].handle)
          IN  /\ native' = r.n
              /\ held' = swap_moves(held, i, LedCanvas(r.ret, "swap"))
              /\ call' = Returned("swap", <<held[i].handle>>, <<r.ret>>, <<>>)
    /\ UNCHANGED <<heap, opt, optState, mState, mHandle, font>>

\* canvas.fill(&color).  LedCanvas carries no lifetime, so the call is also
\* possible after the LedMatrix is gone; the native call then touches freed
\* memory, and the write may or may not land.
Call_fill ==
    /\ \E i \in DOMAIN held : \E color \in Colors :
          /\ IF native.matrix = "live"
             THEN native' = LedCanvas_fill(native, held[i].handle, color)
             ELSE \/ native' = [native EXCEPT !.uaf = TRUE]
                  \/ native' = [LedCanvas_fill(native, held[i].handle, color)
                                    EXCEPT !.uaf = TRUE]
          /\ call' = Call("fill", <<held[i].handle, color, held[i].from>>,
                           "Ok", <<>>)
    /\ UNCHANGED <<heap, opt, optState, mState, mHandle, held, font>>

\* A LedCanvas goes out of scope; it has no Drop and owns nothing.
Drop_LedCanvas ==
    /\ \E i \in DOMAIN held :
          /\ held' = RemoveAt(held, i)
          /\ call' = Call("drop(LedCanvas)", <<held[i].handle>>, "Ok", <<>>)
    /\ UNCHANGED <<heap, opt, optState, mState, mHandle, native, font>>

\* Building and using the configuration record, creating and destroying the
\* matrix.
Next ==
    \/ Call_Options_new
    \/ Call_set_parallel
    \/ Call_set_pwm_bits
    \/ Call_set_brightness
    \/ Call_set_hardware_mapping
    \/ Call_set_led_rgb_sequence
    \/ Call_set_pixel_mapper_config
    \/ Call_set_panel_type
    \/ Drop_Options
    \/ Call_LedMatrix_new_Some
    \/ Call_LedMatrix_new_None
    \/ Drop_LedMatrix

Spec == Init /\ [][Next]_vars

\* Drawing: a matrix made from the default record, its canvases and swaps.
NextCanvas ==
    \/ Call_LedMatrix_new_None
    \/ Call_canvas
    \/ Call_offscreen_canvas
    \/ Call_swap
    \/ Call_fill
    \/ Drop_LedCanvas
    \/ Drop_LedMatrix

SpecCanvas == Init /\ [][NextCanvas]_vars

----------------------------------------------------------------------------
(* Properties.                                                              *)

StringSetterNames ==
    {"set_hardware_mapping", "set_led_rgb_sequence",
     "set_pixel_mapper_config", "set_panel_type"}

\* The field a string setter is named for.
SetterField(op) ==
    CASE op = "set_hardware_mapping"    -> "hardware_mapping"
      [] op = "set_led_rgb_sequence"    -> "led_rgb_sequence"
      [] op = "set_pixel_mapper_config" -> "pixel_mapper_config"
      [] op = "set_panel_type"          -> "panel_type"

\* A record exists (it has been constructed and not yet dropped).
RecordExists == optState \in {"live", "panicked", "retained"}

\* C1: Options::set_pwm_bits returns Ok and stores the input for every input
\* in 0..=11; for every input above 11 it returns an error and leaves the
\* whole record as it was.
C1_set_pwm_bits ==
    call.op = "set_pwm_bits" =>
        /\ call.arg \in 0..11 =>
              /\ call.res = "Ok"
              /\ opt.pwm_bits = call.arg
        /\ call.arg > 11 =>
              /\ call.res = "Err"
              /\ opt = call.pre

\* C1 witness: an out-of-range call was refused after an in-range call had
\* stored a value other than the default.
C1_witness ==
    /\ call.op = "set_pwm_bits"
    /\ call.arg = 12
    /\ call.res = "Err"
    /\ opt.pwm_bits = 0

\* C2: Options::set_brightness returns Ok and stores the input for every
\* input in 1..=100; for 0 and for every input above 100 it returns an error
\* and leaves the record as it was; so the brightness of every record that
\* exists is in 1..100.
C2_set_brightness ==
    /\ call.op = "set_brightness" =>
          /\ call.arg \in 1..100 =>
                /\ call.res = "Ok"
                /\ opt.brightness = call.arg
          /\ call.arg \notin 1..100 =>
                /\ call.res = "Err"
                /\ opt = call.pre
    /\ optState # "none" => opt.brightness \in 1..100

\* C2 witness: brightness 0 was refused after brightness 1 had been stored.
C2_witness ==
    /\ call.op = "set_brightness"
    /\ call.arg = 0
    /\ call.res = "Err"
    /\ opt.brightness = 1

\* C3: Options::set_parallel returns Ok and stores the input for every input
\* in 1..=3; for every other input it returns an error and leaves the record
\* as it was; so the parallel count of every record that exists is in 1..3.
C3_set_parallel ==
    /\ call.op = "set_parallel" =>
          /\ call.arg \in 1..3 =>
                /\ call.res = "Ok"
                /\ opt.parallel = call.arg
          /\ call.arg \notin 1..3 =>
                /\ call.res = "Err"
                /\ opt = call.pre
    /\ optState # "none" => opt.parallel \in 1..3

\* C3 witness: parallel 0 was refused after parallel 3 had been stored.
C3_witness ==
    /\ call.op = "set_parallel"
    /\ call.arg = 0
    /\ call.res = "Err"
    /\ opt.parallel = 3

\* C4: in a string setter the old buffer is never freed before the new one
\* is allocated, and when the new allocation fails the field still points to
\* its old buffer, which is still allocated.
C4_free_only_after_alloc ==
    call.op \in StringSetterNames =>
        LET f == SetterField(call.op)
            e == call.events
        IN  /\ \A i, j \in DOMAIN e :
                  (e[i].ev = "free" /\ e[j].ev = "alloc") => j < i
            /\ call.res = "panic" =>
                  /\ opt[f] = call.pre[f]
                  /\ heap[opt[f]].st = "alloc"

\* C5: from its construction to the start of its destruction, each of the
\* four string fields of a record points to an allocated block that ends
\* with the NUL terminator.
C5_string_fields_valid ==
    RecordExists =>
        \A f \in StringFields :
            /\ opt[f] \in DOMAIN heap
            /\ heap[opt[f]].st = "alloc"
            /\ Len(heap[opt[f]].bytes) >= 1
            /\ heap[opt[f]].bytes[Len(heap[opt[f]].bytes)] = NUL

\* C6: after a call to a string setter the field has exactly one allocated
\* buffer, holding the value just passed; the buffer it replaced has been
\* freed exactly once; no block has been freed twice and no block other
\* than the ones the four fields point to is still allocated.
C6_one_buffer_per_field ==
    call.op \in StringSetterNames =>
        LET f == SetterField(call.op)
        IN  /\ heap[opt[f]].st = "alloc"
            /\ heap[opt[f]].bytes = Append(call.arg, NUL)
            /\ opt[f] # call.pre[f]
            /\ heap[call.pre[f]].st = "freed"
            /\ \A b \in DOMAIN heap :
                  /\ heap[b].frees <= 1
                  /\ heap[b].st = "freed" => heap[b].frees = 1
                  /\ heap[b].st = "alloc" <=> b \in {opt[g] : g \in StringFields}

NewNames == {"LedMatrix::new(Some)", "LedMatrix::new(None)"}

\* C7: LedMatrix::new returns Ok exactly when the native create call returns
\* a non-null handle and Err exactly when it returns null; a LedMatrix that
\* exists holds the non-null handle of a native matrix, and after a failed
\* creation led_matrix_delete has not been called.
C7_new_result ==
    /\ call.op \in NewNames =>
          /\ call.events[1].ev = "create"
          /\ call.res = "Ok" <=> call.events[1].buf # 0
          /\ call.res = "Err" <=> call.events[1].buf = 0
          /\ call.res = "Ok" <=> mState = "live"
          /\ call.res = "Err" <=> mState = "failed"
    /\ mState = "live" => mHandle # 0 /\ native.matrix = "live"
    /\ mState \in {"none", "failed"} => native.deletes = 0

\* C7 witness: the native call returned null for a record the caller had
\* built, and LedMatrix::new returned Err.
C7_witness ==
    /\ call.op = "LedMatrix::new(Some)"
    /\ call.res = "Err"
    /\ mState = "failed"
    /\ native.matrix = "none"

\* C8: once a LedMatrix has been destroyed, led_matrix_delete has been called
\* exactly once and each of the four string buffers of its record has been
\* freed exactly once: no block is still allocated and none was freed twice.
C8_destroy_releases_all ==
    mState = "dropped" =>
        /\ native.deletes = 1
        /\ \A f \in StringFields :
              heap[opt[f]].st = "freed" /\ heap[opt[f]].frees = 1
        /\ \A b \in DOMAIN heap :
              heap[b].st = "freed" /\ heap[b].frees = 1

\* C9: while the native matrix is live, every string buffer of the record
\* that was passed to the create call is still allocated with the bytes it
\* had then; a buffer the driver was given is freed only after the
\* led_matrix_delete call.
C9_record_outlives_matrix ==
    /\ native.matrix = "live" =>
          \A f \in StringFields :
              LET s == native.strings[f]
              IN  /\ heap[s.ptr].st = "alloc"
                  /\ heap[s.ptr].bytes = s.bytes
    /\ native.matrix # "none" =>
          \A i \in DOMAIN call.events :
              ( /\ call.events[i].ev = "free"
                /\ \E f \in StringFields :
                      native.strings[f].ptr = call.events[i].buf )
              => \E j \in 1..(i - 1) : call.events[j].ev = "delete"

\* C9 witness: the native matrix is live on a record whose hardware mapping
\* the caller had replaced.
C9_witness ==
    /\ native.matrix = "live"
    /\ mState = "live"
    /\ native.strings["hardware_mapping"].ptr > 4
    /\ native.strings["hardware_mapping"].bytes = <<"B", "G", "R", NUL>>

\* A swap step that passes the handle the previous swap returned.
PingPongStep ==
    /\ call.op = "swap"
    /\ call'.op = "swap"
    /\ call'.arg = call.ret

\* C10: after LedMatrix::swap(c) the buffer of c is the active one and the
\* returned handle refers to the buffer that was active before the call;
\* only swap (and the creation of the matrix) changes which buffer is
\* active; and a swap that passes the handle the previous swap returned
\* gives back the buffer the previous swap was passed, so that the two
\* buffers alternate.
C10_swap ==
    /\ [](call.op = "swap" =>
            /\ native.active = call.arg[1]
            /\ call.ret[1] = call.active0)
    /\ [][native.active' # native.active =>
            call'.op \in {"swap", "LedMatrix::new(None)"}]_vars
    /\ [][PingPongStep =>
            /\ call'.ret = call.arg
            /\ native'.active = call.ret[1]]_vars

\* C10 witness: a swap has made buffer 1 active again and returned buffer 2,
\* which had been swapped in before and still shows the colour it was
\* filled with.
C10_witness ==
    /\ call.op = "swap"
    /\ call.arg = <<1>>
    /\ call.ret = <<2>>
    /\ native.active = 1
    /\ native.pixels[2] \in Colors

\* C11: every LedCanvas the caller holds refers to a frame buffer of a native
\* matrix that is still live, and no canvas operation has been performed
\* through a handle whose matrix had been destroyed.
C11_no_canvas_after_matrix ==
    /\ held # <<>> => native.matrix = "live"
    /\ ~native.uaf

\* The number of LedCanvas values in hs whose handle is the frame buffer c.
HandlesTo(hs, c) == Cardinality({j \in DOMAIN hs : hs[j].handle = c})

\* C12 as claimed: after swap(c) the caller holds no handle to the buffer c
\* referred to, except one obtained after the swap (the returned handle,
\* when it is that buffer).
C12_no_handle_to_swapped_buffer ==
    call.op = "swap" =>
        HandlesTo(held, call.arg[1]) = IF call.ret = call.arg THEN 1 ELSE 0

\* C12 as amended: swap moves the LedCanvas it is passed out of the caller's
\* hands: after the call the caller holds the values it held before without
\* that one, and the returned one; its other values, also those that refer
\* to the same buffer, are kept.
C12_swap_consumes_its_argument ==
    [][call'.op = "swap" =>
          \E i \in DOMAIN held :
              /\ held[i].handle = call'.arg[1]
              /\ held' = Append(RemoveAt(held, i),
                                LedCanvas(call'.ret[1], "swap"))]_vars

\* C12 witness: after a swap the caller still holds an earlier handle to the
\* buffer that was swapped in.
C12_witness ==
    /\ call.op = "swap"
    /\ call.ret # call.arg
    /\ native.active = call.arg[1]
    /\ \E j \in 1..(Len(held) - 1) : held[j].handle = call.arg[1]

\* The colour the display shows: the content of the active frame buffer.
Displayed == native.pixels[native.active]

\* A fill or a swap made while the native matrix is live.
DrawStep(op) ==
    /\ call'.op = op
    /\ native.matrix = "live"
    /\ native'.matrix = "live"

\* C17 as claimed: a fill through a handle that canvas() returned shows on
\* the display at once; a fill through a handle that offscreen_canvas()
\* returned leaves the display as it was; and a swap makes the display show
\* what had been drawn on the buffer swapped in.
C17_draw_by_origin ==
    /\ [][DrawStep("fill") =>
            /\ call'.arg[3] = "canvas" => Displayed' = call'.arg[2]
            /\ call'.arg[3] = "offscreen_canvas" => Displayed' = Displayed]_vars
    /\ [][DrawStep("swap") => Displayed' = native.pixels[call'.arg[1]]]_vars

\* C17 as amended: a fill shows on the display at once exactly when its
\* handle refers to the buffer that is active at the time, as the handle
\* canvas() returns does when it is returned; a handle that
\* offscreen_canvas() returned never refers to the active buffer while the
\* caller holds it, so a fill through it leaves the display as it was; and a
\* swap makes the display show what had been drawn on the buffer swapped in.
C17_draw_by_active ==
    /\ [][DrawStep("fill") =>
            IF call'.arg[1] = native.active
            THEN Displayed' = call'.arg[2]
            ELSE Displayed' = Displayed]_vars
    /\ [][DrawStep("swap") => Displayed' = native.pixels[call'.arg[1]]]_vars
    /\ [](call.op = "canvas" => call.ret = <<native.active>>)
    /\ [](native.matrix = "live" =>
            \A j \in DOMAIN held :
                held[j].from = "offscreen_canvas" =>
                    held[j].handle # native.active)

\* C17 witness: a fill through a handle that canvas() had returned before a
\* swap: the buffer is no longer the active one and the display does not
\* show the colour.
C17_witness ==
    /\ call.op = "fill"
    /\ native.matrix = "live"
    /\ call.arg[3] = "canvas"
    /\ call.arg[1] # native.active
    /\ native.pixels[call.arg[1]] = call.arg[2]
    /\ Displayed # call.arg[2]

----------------------------------------------------------------------------
(* Fonts and text.                                                          *)

\* A byte sequence that is not valid UTF-8, in a Path.
BAD == "xFF"

\* The &Path arguments of LedFont::new: a plain path, one that is not valid
\* UTF-8, and one with an interior NUL byte.
PathInputs == { <<"f">>, <<"f", BAD>>, <<"f", NUL, "g">> }

\* The &str arguments of draw_text; the last has an interior NUL byte.
TextInputs == { <<>>, <<"M", "a", "h">>, <<"a", NUL, "b">> }

\* The width of a glyph of the font, in pixels.
GlyphWidth == 10

\* Path::to_str: None unless the path is valid UTF-8.
Path_to_str(p) ==
    IF \E i \in 1..Len(p) : p[i] = BAD
    THEN [some |-> FALSE, str |-> <<>>]
    ELSE [some |-> TRUE, str |-> p]

\* load_font(bdf_font_file) returning nf: null, or a loaded font.
load_font(n, nf) == IF nf = 0 THEN n ELSE [n EXCEPT !.font = "loaded"]

\* delete_font(font)
delete_font(n, f) ==
    [n EXCEPT !.font = "deleted", !.fontDeletes = @ + 1]

\* draw_text / vertical_draw_text(canvas, font, x, y, r, g, b, text, kerning):
\* a non-empty text is drawn in the colour on the frame buffer; the advance
\* is returned.
native_draw_text(n, canvas, text, color) ==
    [n   |-> IF text = <<>> THEN n ELSE led_canvas_fill(n, canvas, color),
     ret |-> GlyphWidth * Len(text)]

LedFont_new_noNullCheck(n, bdf_file, nf) ==
    LET string == Path_to_str(bdf_file)
    IN  IF ~string.some
        THEN [res |-> "BadPath", native |-> n, handle |-> 0, events |-> <<>>]
        ELSE IF ~CString_new(string.str).ok
        THEN [res |-> "panic", native |-> n, handle |-> 0, events |-> <<>>]
        ELSE [res |-> "Ok", native |-> load_font(n, nf), handle |-> nf,
              events |-> <<Ev("load_font", nf)>>]

\* LedFont::new(bdf_file), nf being what load_font returns if it is called.
LedFont_new(n, bdf_file, nf) ==
    LET string == Path_to_str(bdf_file)
    IN  IF ~string.some
        THEN [res |-> "BadPath", native |-> n, handle |-> 0, events |-> <<>>]
        ELSE IF ~CString_new(string.str).ok
        THEN [res |-> "panic", native |-> n, handle |-> 0, events |-> <<>>]
        ELSE IF nf = 0
        THEN [res |-> "LoadFailed", native |-> load_font(n, nf),
              handle |-> 0, events |-> <<Ev("load_font", nf)>>]
        ELSE [res |-> "Ok", native |-> load_font(n, nf), handle |-> nf,
              events |-> <<Ev("load_font", nf)>>]

\* <LedFont as Drop>::drop
LedFont_drop(n, handle) ==
    [native |-> delete_font(n, handle),
     events |-> <<Ev("delete_font", handle)>>]

\* LedCanvas::draw_text(font, text, pixel, color, kerning_offset, vertical):
\* the text is made a CString (unwrap() panics on an interior NUL), then
\* vertical_draw_text or draw_text is called and its result returned.  The
\* coordinates and the kerning offset are passed on as they are.
LedCanvas_draw_text(n, canvas, text, color, vertical) ==
    LET ctext == CString_new(text)
        r     == native_draw_text(n, canvas, text, color)
    IN  IF ~ctext.ok
        THEN [res |-> "panic", native |-> n, events |-> <<>>]
        ELSE [res |-> "Ok", native |-> r.n,
              events |-> <<Ev(IF vertical THEN "vertical_draw_text"
                                          ELSE "draw_text", r.ret)>>]

\* let font = LedFont::new(path);  on Err and on a panic no LedFont exists.
Call_LedFont_new ==
    /\ font.state = "none"
    /\ \E bdf_file \in PathInputs : \E nf \in NativeHandles :
          LET r == LedFont_new(native, bdf_file, nf)
          IN  /\ native' = r.native
              /\ font' = IF r.res = "Ok"
                         THEN [state |-> "live", handle |-> r.handle]
                         ELSE font
              /\ call' = Call("LedFont::new", bdf_file, r.res, r.events)
    /\ UNCHANGED <<heap, opt, optState, mState, mHandle, held>>

\* The LedFont goes out of scope.
Drop_LedFont ==
    /\ font.state = "live"
    /\ LET r == LedFont_drop(native, font.handle)
       IN  /\ native' = r.native
           /\ call' = Call("drop(LedFont)", <<>>, "Ok", r.events)
    /\ font' = [font EXCEPT !.state = "dropped"]
    /\ UNCHANGED <<heap, opt, optState, mState, mHandle, held>>

\* canvas.draw_text(&font, text, pixel, &color, kerning_offset, vertical).
\* The font is borrowed, so it is live; the canvas may outlive its matrix,
\* and the native call then touches freed memory.
Call_draw_text ==
    /\ font.state = "live"
    /\ \E i \in DOMAIN held : \E text \in TextInputs :
       \E color \in Colors : \E vertical \in BOOLEAN :
          LET r == LedCanvas_draw_text(native, held[i].handle, text, color,
                                       vertical)
          IN  /\ IF native.matrix = "live" \/ r.res = "panic"
                 THEN native' = r.native
                 ELSE \/ native' = [native EXCEPT !.uaf = TRUE]
                      \/ native' = [r.native EXCEPT !.uaf = TRUE]
              /\ call' = Call("draw_text", <<text, vertical>>, r.res,
                              r.events)
    /\ UNCHANGED <<heap, opt, optState, mState, mHandle, held, font>>

\* Text: a matrix made from the default record, a font, and text drawn on
\* the active canvas.
NextFont ==
    \/ Call_LedMatrix_new_None
    \/ Call_canvas
    \/ Drop_LedCanvas
    \/ Drop_LedMatrix
    \/ Call_LedFont_new
    \/ Call_draw_text
    \/ Drop_LedFont

SpecFont == Init /\ [][NextFont]_vars

\* C13: LedFont::new returns LoadFailed exactly when load_font was called and
\* returned null, and Ok exactly when it returned a font; while no LedFont
\* has been made delete_font has not been called; a LedFont that exists
\* holds the non-null handle of a loaded font not yet deleted; and once it
\* has been dropped delete_font has been called exactly once, whatever has
\* happened to the matrix.
C13_font_lifecycle ==
    /\ call.op = "LedFont::new" =>
          LET loaded == call.events # <<>> /\ call.events[1].ev = "load_font"
          IN  /\ call.res = "LoadFailed" <=> (loaded /\ call.events[1].buf = 0)
              /\ call.res = "Ok" <=> (loaded /\ call.events[1].buf # 0)
              /\ call.res = "Ok" <=> font.state = "live"
    /\ font.state = "none" => native.fontDeletes = 0
    /\ font.state = "live" =>
          /\ font.handle # 0
          /\ native.font = "loaded"
          /\ native.fontDeletes = 0
    /\ font.state = "dropped" =>
          /\ native.font = "deleted"
          /\ native.fontDeletes = 1

\* C13 witness: the font has been dropped after the matrix it was used with
\* had been destroyed.
C13_witness ==
    /\ font.state = "dropped"
    /\ native.fontDeletes = 1
    /\ mState = "dropped"
    /\ call.op = "drop(LedFont)"

\* C14: when the path given to LedFont::new is not valid UTF-8 or has an
\* interior NUL, or the text given to draw_text has an interior NUL, the
\* call makes no native call and returns an error result.
C14_encoding_failure_reported ==
    /\ ( /\ call.op = "LedFont::new"
         /\ \E i \in DOMAIN call.arg : call.arg[i] \in {BAD, NUL} )
       => call.events = <<>> /\ call.res \in {"BadPath", "LoadFailed"}
    /\ ( /\ call.op = "draw_text"
         /\ \E i \in DOMAIN call.arg[1] : call.arg[1][i] = NUL )
       => call.events = <<>> /\ call.res \in {"Err", "BadPath"}

\* The numeric fields of a record hold the documented defaults.
DefaultNumbers(o) ==
    /\ o.rows = 32 /\ o.cols = 32 /\ o.chain_length = 1 /\ o.parallel = 1
    /\ o.pwm_bits = 11 /\ o.pwm_lsb_nanoseconds = 1000
    /\ o.pwm_dither_bits = 1 /\ o.brightness = 100
    /\ o.scan_mode = 0 /\ o.row_address_type = 0 /\ o.multiplexing = 0
    /\ o.disable_hardware_pulsing = 1 /\ o.show_refresh_rate = 1
    /\ o.inverse_colors = 1

\* The documented default strings, as NUL-terminated buffers.
DefaultBytes ==
    [hardware_mapping    |-> <<"r", "e", "g", "u", "l", "a", "r", "NUL">>,
     led_rgb_sequence    |-> <<"R", "G", "B", "NUL">>,
     pixel_mapper_config |-> <<"NUL">>,
     panel_type          |-> <<"NUL">>]

\* C15: right after Options::new() the record holds the documented defaults
\* (the four strings in four distinct buffers), and the record
\* LedMatrix::new(None) hands to led_matrix_create_from_options holds
\* exactly the same; on success the driver has read these strings and is
\* sized 32 x 32.
C15_defaults ==
    /\ call.op \in {"Options::new", "LedMatrix::new(None)"} =>
          /\ DefaultNumbers(opt)
          /\ \A f \in StringFields :
                /\ opt[f] \in DOMAIN heap
                /\ heap[opt[f]].bytes = DefaultBytes[f]
          /\ \A f, g \in StringFields : f # g => opt[f] # opt[g]
    /\ call.op = "Options::new" =>
          \A f \in StringFields : heap[opt[f]].st = "alloc"
    /\ call.op = "LedMatrix::new(None)" =>
          /\ call.events[1].ev = "create"
          /\ call.res = "Ok" =>
                /\ \A f \in StringFields :
                      /\ native.strings[f].ptr = opt[f]
                      /\ native.strings[f].bytes = DefaultBytes[f]
                /\ native.size = <<32, 32>>

\* C15 witness: LedMatrix::new(None) succeeded and the driver was given the
\* default strings.
C15_witness ==
    /\ call.op = "LedMatrix::new(None)"
    /\ call.res = "Ok"
    /\ DefaultNumbers(opt)
    /\ native.strings["hardware_mapping"].bytes =
          <<"r", "e", "g", "u", "l", "a", "r", "NUL">>
    /\ native.strings["panel_type"].bytes = <<"NUL">>

----------------------------------------------------------------------------
(* The setters that do not validate, and LedCanvas::size.                   *)

\* v as c_int for a u16 v: the 16 bits of v, zero-extended.  (c_int is i32,
\* so an i32 or a c_int cast to the other is the same value.)
u16_as_c_int(v) == v % (2 ^ 16)

\* The discriminants of the option enums.
ScanMode == [Progressive |-> 0, Interlaced |-> 1]
RowAddressType ==
    [Direct |-> 0, ShiftRegister |-> 1, DirectABCDLine |-> 2,
     ABCShiftRegister |-> 3]
Multiplexing ==
    [Direct |-> 0, Stripe |-> 1, Checkered |-> 2, Spiral |-> 3, ZStripe |-> 4,
     ZnMirrorZStripe |-> 5, Coreman |-> 6]

\* The arguments the setters are called with.
RowsInputs           == {16, 64}
ColsInputs           == {16, 64}
ChainLengthInputs    == {1, 2}
PwmLsbInputs         == {130, 65535}
PwmDitherInputs      == {-1, 2}
ScanModeInputs       == {"Progressive", "Interlaced"}
RowAddressTypeInputs == {"ShiftRegister", "ABCShiftRegister"}
MultiplexingInputs   == {"Stripe", "Coreman"}

Options_set_rows_andCols(o, rows) ==
    [o EXCEPT !.rows = u16_as_c_int(rows), !.cols = u16_as_c_int(rows)]

\* Options::set_rows(rows: u16)
Options_set_rows(o, rows) == [o EXCEPT !.rows = u16_as_c_int(rows)]

\* Options::set_cols(cols: u16)
Options_set_cols(o, cols) == [o EXCEPT !.cols = u16_as_c_int(cols)]

\* Options::set_chain_length(chain_length: u16)
Options_set_chain_length(o, chain_length) ==
    [o EXCEPT !.chain_length = u16_as_c_int(chain_length)]

\* Options::set_pwm_lsb_nanoseconds(pwm_lsb_nanoseconds: u16)
Options_set_pwm_lsb_nanoseconds(o, pwm_lsb_nanoseconds) ==
    [o EXCEPT !.pwm_lsb_nanoseconds = u16_as_c_int(pwm_lsb_nanoseconds)]

\* Options::set_pwm_dither_bits(pwm_dither_bits: i32)
Options_set_pwm_dither_bits(o, pwm_dither_bits) ==
    [o EXCEPT !.pwm_dither_bits = pwm_dither_bits]

\* Options::set_scan_mode(scan_mode: ScanMode)
Options_set_scan_mode(o, scan_mode) ==
    [o EXCEPT !.scan_mode = ScanMode[scan_mode]]

\* Options::set_row_address_type(row_address_type: RowAddressType)
Options_set_row_address_type(o, row_address_type) ==
    [o EXCEPT !.row_address_type = RowAddressType[row_address_type]]

\* Options::set_multiplexing(multiplexing: Multiplexing)
Options_set_multiplexing(o, multiplexing) ==
    [o EXCEPT !.multiplexing = Multiplexing[multiplexing]]

\* Options::set_disable_hardware_pulsing(disable: bool)
Options_set_disable_hardware_pulsing(o, disable) ==
    IF disable
    THEN [o EXCEPT !.disable_hardware_pulsing = 1]
    ELSE [o EXCEPT !.disable_hardware_pulsing = 0]

\* Options::set_show_refresh_rate(show: bool)
Options_set_show_refresh_rate(o, show) ==
    IF show
    THEN [o EXCEPT !.show_refresh_rate = 1]
    ELSE [o EXCEPT !.show_refresh_rate = 0]

\* Options::set_inverse_colors(inverse: bool)
Options_set_inverse_colors(o, inverse) ==
    IF inverse
    THEN [o EXCEPT !.inverse_colors = 1]
    ELSE [o EXCEPT !.inverse_colors = 0]

\* The effect of a setter that returns (): rec is the record it leaves.
SetterStep(op, arg, rec) ==
    /\ opt' = rec
    /\ call' = Call(op, arg, "Ok", <<>>)
    /\ UNCHANGED <<heap, optState, mState, mHandle, native, held, font>>

Call_set_rows ==
    /\ optState = "live"
    /\ \E rows \in RowsInputs :
          SetterStep("set_rows", rows, Options_set_rows(opt, rows))

Call_set_cols ==
    /\ optState = "live"
    /\ \E cols \in ColsInputs :
          SetterStep("set_cols", cols, Options_set_cols(opt, cols))

Call_set_chain_length ==
    /\ optState = "live"
    /\ \E chain_length \in ChainLengthInputs :
          SetterStep("set_chain_length", chain_length,
                     Options_set_chain_length(opt, chain_length))

Call_set_pwm_lsb_nanoseconds ==
    /\ optState = "live"
    /\ \E pwm_lsb_nanoseconds \in PwmLsbInputs :
          SetterStep("set_pwm_lsb_nanoseconds", pwm_lsb_nanoseconds,
                     Options_set_pwm_lsb_nanoseconds(opt, pwm_lsb_nanoseconds))

Call_set_pwm_dither_bits ==
    /\ optState = "live"
    /\ \E pwm_dither_bits \in PwmDitherInputs :
          SetterStep("set_pwm_dither_bits", pwm_dither_bits,
                     Options_set_pwm_dither_bits(opt, pwm_dither_bits))

Call_set_scan_mode ==
    /\ optState = "live"
    /\ \E scan_mode \in ScanModeInputs :
          SetterStep("set_scan_mode", scan_mode,
                     Options_set_scan_mode(opt, scan_mode))

Call_set_row_address_type ==
    /\ optState = "live"
    /\ \E row_address_type \in RowAddressTypeInputs :
          SetterStep("set_row_address_type", row_address_type,
                     Options_set_row_address_type(opt, row_address_type))

Call_set_multiplexing ==
    /\ optState = "live"
    /\ \E multiplexing \in MultiplexingInputs :
          SetterStep("set_multiplexing", multiplexing,
                     Options_set_multiplexing(opt, multiplexing))

Call_set_disable_hardware_pulsing ==
    /\ optState = "live"
    /\ \E disable \in BOOLEAN :
          SetterStep("set_disable_hardware_pulsing", disable,
                     Options_set_disable_hardware_pulsing(opt, disable))

Call_set_show_refresh_rate ==
    /\ optState = "live"
    /\ \E show \in BOOLEAN :
          SetterStep("set_show_refresh_rate", show,
                     Options_set_show_refresh_rate(opt, show))

Call_set_inverse_colors ==
    /\ optState = "live"
    /\ \E inverse \in BOOLEAN :
          SetterStep("set_inverse_colors", inverse,
                     Options_set_inverse_colors(opt, inverse))

\* led_canvas_get_size(canvas, width, height): the size of the frame buffer.
led_canvas_get_size(n, canvas) == n.size

LedCanvas_size_transposed(n, canvas) ==
    LET wh == led_canvas_get_size(n, canvas)
    IN  <<wh[2], wh[1]>>

\* LedCanvas::size(): (width as i32, height as i32) as the driver wrote them.
LedCanvas_size(n, canvas) ==
    LET wh == led_canvas_get_size(n, canvas)
    IN  <<wh[1], wh[2]>>

\* let (width, height) = canvas.size();  after the matrix has been deleted
\* the driver reads freed memory, and what it writes is not determined.
Call_size ==
    /\ \E i \in DOMAIN held :
          IF native.matrix = "live"
          THEN /\ native' = native
               /\ call' = Returned("size", <<held[i].handle>>,
                                   LedCanvas_size(native, held[i].handle),
                                   <<>>)
          ELSE /\ native' = [native EXCEPT !.uaf = TRUE]
               /\ \E wh \in {native.size, <<0, 0>>} :
                     call' = Returned("size", <<held[i].handle>>, wh, <<>>)
    /\ UNCHANGED <<heap, opt, optState, mState, mHandle, held, font>>

\* Sizes: a record is built and its geometry set, a matrix is made from it,
\* and the size of its canvas is read.
NextSize ==
    \/ Call_Options_new
    \/ Call_set_rows
    \/ Call_set_cols
    \/ Call_set_chain_length
    \/ Call_set_parallel
    \/ Call_LedMatrix_new_Some
    \/ Call_canvas
    \/ Call_size
    \/ Drop_LedCanvas
    \/ Drop_LedMatrix

SpecSize == Init /\ [][NextSize]_vars

\* C16: while the matrix is live, and its record has parallel 1 and the
\* default (empty) pixel mapper configuration, size() of the canvas
\* canvas() returned is (cols * chain_length, rows) of the record the matrix
\* was made from; for rows 64, cols 64 and chain length 1 it is (64, 64).
C16_canvas_size ==
    ( /\ call.op = "size"
      /\ native.matrix = "live"
      /\ opt.parallel = 1
      /\ heap[opt.pixel_mapper_config].bytes = <<"NUL">> )
    => /\ call.ret = <<opt.cols * opt.chain_length, opt.rows>>
       /\ (opt.rows = 64 /\ opt.cols = 64 /\ opt.chain_length = 1)
             => call.ret = <<64, 64>>

\* C16 witness: size() was read with 64 columns in a chain of 2 and 16 rows.
C16_witness ==
    /\ call.op = "size"
    /\ native.matrix = "live"
    /\ opt.parallel = 1
    /\ opt.rows = 16 /\ opt.cols = 64 /\ opt.chain_length = 2
    /\ call.ret = <<128, 16>>

----------------------------------------------------------------------------
(* All the setters together.                                                *)

\* How many changes to a fresh record are followed: fields that differ from
\* their defaults, plus string buffers that were replaced.
MaxChanged == 2

NumericFields == DOMAIN NoOptions \ StringFields

\* The record Options::new() makes on an empty heap.
FreshRecord == Options_new(<<>>).rec

Changed(o, h) ==
    Cardinality({f \in NumericFields : o[f] # FreshRecord[f]}) + (Len(h) - 4)

\* Configuration: a record is built and any of its eighteen setters called.
NextSetters ==
    \/ Call_Options_new
    \/ Drop_Options
    \/ Call_set_hardware_mapping /\ Changed(opt', heap') <= MaxChanged
    \/ Call_set_rows /\ Changed(opt', heap') <= MaxChanged
    \/ Call_set_cols /\ Changed(opt', heap') <= MaxChanged
    \/ Call_set_chain_length /\ Changed(opt', heap') <= MaxChanged
    \/ Call_set_parallel /\ Changed(opt', heap') <= MaxChanged
    \/ Call_set_pwm_bits /\ Changed(opt', heap') <= MaxChanged
    \/ Call_set_pwm_lsb_nanoseconds /\ Changed(opt', heap') <= MaxChanged
    \/ Call_set_pwm_dither_bits /\ Changed(opt', heap') <= MaxChanged
    \/ Call_set_brightness /\ Changed(opt', heap') <= MaxChanged
    \/ Call_set_scan_mode /\ Changed(opt', heap') <= MaxChanged
    \/ Call_set_row_address_type /\ Changed(opt', heap') <= MaxChanged
    \/ Call_set_multiplexing /\ Changed(opt', heap') <= MaxChanged
    \/ Call_set_led_rgb_sequence /\ Changed(opt', heap') <= MaxChanged
    \/ Call_set_pixel_mapper_config /\ Changed(opt', heap') <= MaxChanged
    \/ Call_set_panel_type /\ Changed(opt', heap') <= MaxChanged
    \/ Call_set_disable_hardware_pulsing /\ Changed(opt', heap') <= MaxChanged
    \/ Call_set_show_refresh_rate /\ Changed(opt', heap') <= MaxChanged
    \/ Call_set_inverse_colors /\ Changed(opt', heap') <= MaxChanged

SpecSetters == Init /\ [][NextSetters]_vars

\* The field each setter is named for.
FieldOfSetter ==
    [set_hardware_mapping |-> "hardware_mapping", set_rows |-> "rows",
     set_cols |-> "cols", set_chain_length |-> "chain_length",
     set_parallel |-> "parallel", set_pwm_bits |-> "pwm_bits",
     set_pwm_lsb_nanoseconds |-> "pwm_lsb_nanoseconds",
     set_pwm_dither_bits |-> "pwm_dither_bits",
     set_brightness |-> "brightness", set_scan_mode |-> "scan_mode",
     set_row_address_type |-> "row_address_type",
     set_multiplexing |-> "multiplexing",
     set_led_rgb_sequence |-> "led_rgb_sequence",
     set_pixel_mapper_config |-> "pixel_mapper_config",
     set_panel_type |-> "panel_type",
     set_disable_hardware_pulsing |-> "disable_hardware_pulsing",
     set_show_refresh_rate |-> "show_refresh_rate",
     set_inverse_colors |-> "inverse_colors"]

\* C18: after any setter every field of the record other than the one the
\* setter is named for is as it was before the call; after a validated
\* setter returned an error the whole record is as it was; and the setters
\* make no native call: they only free or allocate string buffers, and
\* after any number of them the driver is untouched and no matrix exists.
C18_setter_frame ==
    call.op \in DOMAIN FieldOfSetter =>
        /\ \A f \in DOMAIN NoOptions \ {FieldOfSetter[call.op]} :
              opt[f] = call.pre[f]
        /\ call.res = "Err" => opt = call.pre
        /\ \A i \in DOMAIN call.events :
              call.events[i].ev \in {"free", "alloc"}
        /\ native = NativeInit
        /\ mState = "none" /\ mHandle = 0

\* C18 witness: set_rows changed rows on a record whose cols had been
\* changed before, and cols is still the changed value.
C18_witness ==
    /\ call.op = "set_rows"
    /\ call.pre.rows = 32 /\ opt.rows = 64
    /\ call.pre.cols = 16 /\ opt.cols = 16

====
